---- MODULE Spec2Model ----
(***************************************************************************)
(* A model of the PySide2 docset generator (src/main.py): the index store  *)
(* (searchIndex table), the link rewriter (clean_links), and the crawl     *)
(* orchestrator main() with its three levels: root page, module index      *)
(* pages, class pages, and the post-pass that patches the root page.       *)
(*                                                                         *)
(* Strings are TLA+ strings; the string functions of the code (split,      *)
(* replace, endswith, substring search, os.path.dirname/abspath) are       *)
(* operators that compute what the Python functions compute.               *)
(***************************************************************************)
EXTENDS Integers, Sequences, FiniteSets, TLC

VARIABLES
    pc,              \* position of the run: see PcValues
    site,            \* the remote site of this behaviour: links, toc, down
    table,           \* searchIndex: sequence of rows [id, name, type, path]
    files,           \* output directory: file name -> content record
    modules_in_404,  \* main(): list of module slugs whose index was not found
    modules,         \* main(): the anchors returned by parse_main_page
    mi,              \* main(): index of the next module in modules
    functions,       \* main(): class names listed by the current module index
    fi,              \* main(): index of the next class in functions
    run,             \* number of the run of main() in progress (1 or 2)
    firstIndex,      \* the rows of the table at the end of the first run
    inserted,        \* triples passed to insert_entry since the last reset
    fetched,         \* URLs requested with do_request in this run
    written,         \* save_page calls of this run: <<file name, origin URL>>
    frag,            \* link rewriter: the fragment (sequence of nodes)
    frag0,           \* link rewriter: the fragment before clean_links
    cur,             \* link rewriter: [url, cwd] the fragment was fetched with
    lastInsert       \* index store: the last insert_entry call and the table before it

vars == <<pc, site, table, files, modules_in_404, modules, mi, functions, fi,
          run, firstIndex, inserted, fetched, written, frag, frag0, cur, lastInsert>>

\* ------------------------------------------------------------------ bounds

MaxModules == 3      \* number of module links on the root page
MaxInserts == 4      \* length of an insert_entry sequence (index store alone)
MaxTags == 2         \* number of elements of a fragment (link rewriter alone)

\* ------------------------------------------------------------ Python strings

\* str.startswith
StartsWith(s, p) == Len(s) >= Len(p) /\ SubSeq(s, 1, Len(p)) = p

\* str.endswith
EndsWith(s, p) == Len(s) >= Len(p) /\ SubSeq(s, Len(s) - Len(p) + 1, Len(s)) = p

\* `p in s` (also re.search of a pattern without metacharacters)
Contains(s, p) == \E i \in 1..(Len(s) - Len(p) + 1) : SubSeq(s, i, i + Len(p) - 1) = p

\* str.split(sep) for a separator of one character: the pieces between the
\* separators, in order (cuts are the separators' positions and both ends)
Split(s, sep) ==
    LET cuts == {0, Len(s) + 1} \cup {i \in 1..Len(s) : SubSeq(s, i, i) = sep}
        cut(k) == CHOOSE p \in cuts : Cardinality({q \in cuts : q < p}) = k - 1
    IN  [k \in 1..(Cardinality(cuts) - 1) |-> SubSeq(s, cut(k) + 1, cut(k + 1) - 1)]

\* sep.join(parts)
RECURSIVE Join(_, _)
Join(parts, sep) ==
    IF Len(parts) = 0 THEN ""
    ELSE IF Len(parts) = 1 THEN parts[1]
    ELSE parts[1] \o sep \o Join(Tail(parts), sep)

\* str.replace(old, new): every non-overlapping occurrence, left to right
RECURSIVE Replace(_, _, _)
Replace(s, old, new) ==
    LET at == {i \in 1..(Len(s) - Len(old) + 1) : SubSeq(s, i, i + Len(old) - 1) = old}
    IN  IF at = {} THEN s
        ELSE LET i == CHOOSE x \in at : \A y \in at : x <= y
             IN  SubSeq(s, 1, i - 1) \o new
                   \o Replace(SubSeq(s, i + Len(old), Len(s)), old, new)

Last(seq) == seq[Len(seq)]

\* os.path.dirname: what precedes the last "/", trailing slashes stripped
RECURSIVE RStripSlash(_)
RStripSlash(s) ==
    IF Len(s) > 0 /\ SubSeq(s, Len(s), Len(s)) = "/"
    THEN RStripSlash(SubSeq(s, 1, Len(s) - 1))
    ELSE s

Dirname(p) ==
    LET parts == Split(p, "/")
        head == IF Len(parts) = 1 THEN ""
                ELSE SubSeq(p, 1, Len(p) - Len(Last(parts)))
    IN  IF RStripSlash(head) = "" THEN head ELSE RStripSlash(head)

\* os.path.normpath on an absolute path: "" and "." are dropped, ".." pops
RECURSIVE NormComps(_, _)
NormComps(comps, acc) ==
    IF Len(comps) = 0 THEN acc
    ELSE LET c == Head(comps) IN
         IF c = "" \/ c = "." THEN NormComps(Tail(comps), acc)
         ELSE IF c = ".."
              THEN NormComps(Tail(comps),
                             IF Len(acc) = 0 THEN acc ELSE SubSeq(acc, 1, Len(acc) - 1))
              ELSE NormComps(Tail(comps), Append(acc, c))

\* os.path.abspath of a path that does not start with "/": joined to the
\* working directory (an absolute path), then normalised
AbsPath(cwd, p) == "/" \o Join(NormComps(Split(cwd \o "/" \o p, "/"), <<>>), "/")

\* ------------------------------------------------------------- index store

Triple(r) == <<r.name, r.type, r.path>>

Triples(t) == {Triple(t[i]) : i \in DOMAIN t}

\* INTEGER PRIMARY KEY: the next rowid is the largest one plus one
NextId(t) == IF Len(t) = 0 THEN 1 ELSE Last(t).id + 1

\* a reset that creates the table only if it is missing (no DROP)
InitKeepRows(t) == t

\* init_database: DROP TABLE IF EXISTS, then CREATE TABLE and the UNIQUE INDEX
init_database(t) == <<>>

\* a plain INSERT into a table without the unique index: always adds a row
InsertAlways(t, name, entry_type, path) ==
    Append(t, [id |-> NextId(t), name |-> name, type |-> entry_type, path |-> path])

\* insert_entry: INSERT OR IGNORE under the unique index on (name, type, path)
insert_entry(t, name, entry_type, path) ==
    IF <<name, entry_type, path>> \in Triples(t)
    THEN t
    ELSE Append(t, [id |-> NextId(t), name |-> name, type |-> entry_type, path |-> path])

\* rows left in the index file by an earlier run, when the site had other content
StaleTable ==
    << [id |-> 1, name |-> "QtQuick", type |-> "Module", path |-> "QtQuick-index.html"],
       [id |-> 2, name |-> "PySide2.QtQuick.QOld", type |-> "Class", path |-> "QOld.html"] >>

\* ------------------------------------------------------------ link rewriter

\* An element of a fragment: its tag, its href attribute (hasHref says whether
\* it has one) and its children (text). A text node has tag "#text".
Node(tag, hasHref, href, text) ==
    [tag |-> tag, hasHref |-> hasHref, href |-> href, text |-> text]

\* re.compile("^../"): any two characters followed by "/"
MatchesTraversal(href) == Len(href) >= 3 /\ SubSeq(href, 3, 3) = "/"

\* tag.replaceWithChildren(): the children take the element's place
replaceWithChildren(n) == Node("#text", FALSE, "", n.text)

\* the test of clean_links: "PySide2" in os.path.abspath(dirname(url)/href)
InDocumentation(n, current_url, cwd) ==
    Contains(AbsPath(cwd, Dirname(current_url) \o "/" \o n.href), "PySide2")

\* a flattening that keeps the last directory
FlatHrefKeepDir(href) ==
    LET parts == Split(href, "/")
    IN  IF Len(parts) >= 2 THEN parts[Len(parts) - 1] \o "/" \o Last(parts)
        ELSE Last(parts)

\* the new href of a kept link: tag["href"].split("/")[-1]
FlatHref(href) == Last(Split(href, "/"))

\* one iteration of the loop of clean_links
CleanNode(n, current_url, cwd) ==
    IF n.tag \in {"a", "area"} /\ n.hasHref /\ MatchesTraversal(n.href)
    THEN IF InDocumentation(n, current_url, cwd)
         THEN [n EXCEPT !.href = FlatHref(n.href)]
         ELSE replaceWithChildren(n)
    ELSE n

\* clean_links(body, current_url), run in working directory cwd
clean_links(body, current_url, cwd) ==
    [i \in DOMAIN body |-> CleanNode(body[i], current_url, cwd)]

\* ------------------------------------------------------------ the remote site

BaseUrl == "https://doc-snapshots.qt.io/qtforpython/"

RootUrl == BaseUrl

CssUrl == "https://doc-snapshots.qt.io/style/pyside.css"

ArrowUrl == "https://doc-snapshots.qt.io/style/list_arrow.png"

\* the URL parse_module_index_page builds
ModuleUrl(module) == BaseUrl \o "PySide2/" \o module \o "/index.html"

\* the URL parse_class_page builds
ClassUrl(module, class_name) ==
    BaseUrl \o "PySide2/" \o module \o "/" \o class_name \o ".html"

\* the URL parse_class_page downloads an image from
ImageUrl(src) == BaseUrl \o Replace(src, "../../", "")

\* module.string.replace(' ', '')
Slug(text) == Replace(text, " ", "")

\* The texts of the module links of the root page. One module's name is a
\* substring of the other's (as QtQuick and QtQuickWidgets on the real site).
LinkTexts == {"Qt Quick", "QtQuickWidgets"}

ModuleSlugs == {Slug(t) : t \in LinkTexts}

ClassNames == {"QObject", "QEvent", "QMetaEnum", "QTextObjectInterface"}

\* The class lists a module index page may show in its table of contents.
TocChoices ==
    { <<"QObject", "QEvent">>,
      <<"QMetaEnum", "QObject">>,
      <<"QTextObjectInterface", "QEvent">> }

\* The synopsis listing of a class page: has says whether the page has one,
\* methods is its links (string, href). Overloads of one method are listed
\* once each and share their in-page anchor.
Method(string, href) == [string |-> string, href |-> href]

Synopsis(class_name) ==
    CASE class_name = "QObject" ->
            [has |-> TRUE,
             methods |-> << Method("connect", "#QObject.connect"),
                            Method("parent", "#QObject.parent"),
                            Method("connect", "#QObject.connect") >>]
      [] class_name = "QEvent" ->
            [has |-> TRUE, methods |-> << Method("type", "#QEvent.type") >>]
      [] class_name = "QTextObjectInterface" ->
            [has |-> TRUE, methods |-> << >>]
      [] OTHER -> [has |-> FALSE, methods |-> << >>]

\* The src attributes of the img elements of a class page.
Images(class_name) ==
    IF class_name = "QObject" THEN << "../../_images/qobject.png" >> ELSE << >>

\* The a elements of a class page; the first nInherited follow "Inherited by:".
ClassLinks(class_name) ==
    IF class_name = "QObject"
    THEN [nInherited |-> 1,
          nodes |-> << Node("a", TRUE, "../QtGui/QWindow.html#more", "QWindow"),
                       Node("a", TRUE, "../../overviews/object.html", "Object Model") >>]
    ELSE [nInherited |-> 0,
          nodes |-> << Node("a", TRUE, "../QtCore/QObject.html#QObject.parent", "parent") >>]

\* The a elements of a module index page, besides its table of contents.
ModuleLinks == << Node("a", TRUE, "../../modules.html", "Modules") >>

\* The URLs that may answer with an HTTP error.
FailableUrls ==
    { RootUrl, ModuleUrl("QtQuick"), ModuleUrl("QtQuickWidgets"),
      ClassUrl("QtQuick", "QObject"), ImageUrl("../../_images/qobject.png") }

\* Sequences over S of length at most n
RECURSIVE SeqsUpTo(_, _)
SeqsUpTo(S, n) ==
    IF n = 0 THEN {<<>>}
    ELSE LET shorter == SeqsUpTo(S, n - 1)
         IN  shorter \cup {Append(q, x) : q \in shorter, x \in S}

\* The sites of the model: the module links of the root page in page order,
\* the table of contents of every module, and the URLs that answer with an
\* HTTP error.
Sites ==
    [links : SeqsUpTo(LinkTexts, MaxModules),
     toc : [ModuleSlugs -> TocChoices],
     down : SUBSET FailableUrls]

\* the working directory the tool is run in
Cwd == "/home/user/pyside-docset-generator"

\* do_request: the parsed document, or None on an HTTP error
do_request(s, url) == IF url \in s.down THEN [ok |-> FALSE] ELSE [ok |-> TRUE]

\* download_file: whether the download succeeded
download_ok(s, url) == url \notin s.down

\* ------------------------------------------------------------ page renderer

\* The content of an output file: the URL it was rendered or downloaded from
\* and, for a page, the elements and the images of its body.
Content(origin, nodes, imgs) == [origin |-> origin, nodes |-> nodes, imgs |-> imgs]

NoFiles == [f \in {} |-> Content("", <<>>, <<>>)]

\* save_page / download_file: open(file_name, "w") creates or overwrites
save_page(fs, file_name, content) == (file_name :> content) @@ fs

\* -------------------------------------------------------- crawl orchestrator

\* the root page's module links: a.external elements, href PySide2/<dir>/index.html
RootAnchors(s) ==
    [i \in DOMAIN s.links |->
        Node("a", TRUE, "PySide2/" \o Slug(s.links[i]) \o "/index.html", s.links[i])]

\* parse_main_page: .replace('href="PySide2/', 'href="') then
\* .replace("/index.html", "-index.html") on the serialised body
RootHref(href) ==
    Replace(IF StartsWith(href, "PySide2/") THEN SubSeq(href, 9, Len(href)) ELSE href,
            "/index.html", "-index.html")

RootBody(anchors) == [i \in DOMAIN anchors |-> [anchors[i] EXCEPT !.href = RootHref(@)]]

\* a check of the fetch result that never sees the missing page
ModuleNotFoundNever(document) == FALSE

\* parse_module_index_page returns False when do_request returned None, and
\* main() tests `module_index_body is False`
ModuleNotFound(document) == ~document.ok

\* a not-found branch that forgets to record the module
RecordNothing(list, module_slug) == list

\* main(): modules_in_404.append(module_slug)
RecordNotFound(list, module_slug) == Append(list, module_slug)

\* a classification that tests only two of the three suffixes
database_type_no_enum(class_name) ==
    IF EndsWith(class_name, "Event") THEN "Event"
    ELSE IF EndsWith(class_name, "Interface") THEN "Interface"
    ELSE "Class"

\* parse_class_page: the type of the class entry, by the suffix of the name
database_type(class_name) ==
    IF EndsWith(class_name, "Event") THEN "Event"
    ELSE IF EndsWith(class_name, "Interface") THEN "Interface"
    ELSE IF EndsWith(class_name, "Enum") THEN "Enum"
    ELSE "Class"

\* parse_class_page: entry_name of the class entry
ClassEntryName(module, class_name) == "PySide2." \o module \o "." \o class_name

\* parse_class_page: entry_name of a method entry
MethodEntryName(module, class_name, string) ==
    "PySide2." \o module \o "." \o class_name \o "." \o string

\* a method path that drops the in-page anchor
MethodPathNoAnchor(file_path, href) == file_path

\* parse_class_page: the path of a method entry, "%s%s" % (file_path, href)
MethodPath(file_path, href) == file_path \o href

\* parse_class_page: link["href"].split("#")[0] on the links after "Inherited by:"
StripInherited(links) ==
    [i \in DOMAIN links.nodes |->
        IF i <= links.nInherited
        THEN [links.nodes[i] EXCEPT !.href = Split(@, "#")[1]]
        ELSE links.nodes[i]]

\* parse_class_page: the image loop. Each image is downloaded to the output
\* directory under its base name; its src becomes that name, or the element
\* is removed when the download failed.
RECURSIVE DownloadImages(_, _, _, _)
DownloadImages(s, fs, imgs, kept) ==
    IF Len(imgs) = 0 THEN [files |-> fs, imgs |-> kept]
    ELSE LET img_src == Replace(Head(imgs), "../../", "")
             image_file_name == Last(Split(img_src, "/"))
             url == BaseUrl \o img_src
         IN  IF download_ok(s, url)
             THEN DownloadImages(s, save_page(fs, image_file_name, Content(url, <<>>, <<>>)),
                                 Tail(imgs), Append(kept, image_file_name))
             ELSE DownloadImages(s, fs, Tail(imgs), kept)

\* parse_class_page: the loop over the synopsis links
RECURSIVE InsertMethods(_, _, _, _, _)
InsertMethods(t, methods, module, class_name, file_path) ==
    IF Len(methods) = 0 THEN t
    ELSE InsertMethods(
            insert_entry(t, MethodEntryName(module, class_name, Head(methods).string),
                         "Method", MethodPath(file_path, Head(methods).href)),
            Tail(methods), module, class_name, file_path)

\* the triples the loop over the synopsis links passes to insert_entry
MethodTriples(methods, module, class_name, file_path) ==
    { << MethodEntryName(module, class_name, methods[i].string), "Method",
         MethodPath(file_path, methods[i].href) >> : i \in DOMAIN methods }

\* main(): main_page_body.find("a", href=re.compile(module_in_404)): the first
\* a element whose href the pattern matches somewhere, or 0 for None
FindAnchor(body, module_in_404) ==
    LET hits == {i \in DOMAIN body : /\ body[i].tag = "a"
                                     /\ body[i].hasHref
                                     /\ Contains(body[i].href, module_in_404)}
    IN  IF hits = {} THEN 0 ELSE CHOOSE i \in hits : \A j \in hits : i <= j

\* main(): the loop over modules_in_404. ok is FALSE when find returned None
\* (None.replaceWithChildren raises AttributeError).
RECURSIVE Prune(_, _)
Prune(body, names) ==
    IF Len(names) = 0 THEN [ok |-> TRUE, body |-> body]
    ELSE LET i == FindAnchor(body, Head(names))
         IN  IF i = 0 THEN [ok |-> FALSE, body |-> body]
             ELSE Prune([body EXCEPT ![i] = replaceWithChildren(@)], Tail(names))

\* --------------------------------------------------------------- the crawl

\* the variables of the index-store and link-rewriter specifications
NoInsert == [n |-> 0, triple |-> <<"", "", "">>, before |-> <<>>]

Idle == /\ frag = <<>> /\ frag0 = <<>> /\ cur = [url |-> "", cwd |-> ""]
        /\ lastInsert = NoInsert

\* Before main(): the output directory is empty and the index file is new or
\* holds the rows of an earlier run.
Init ==
    /\ pc = "start"
    /\ site \in Sites
    /\ table \in {<<>>, StaleTable}
    /\ files = NoFiles
    /\ modules_in_404 = <<>>
    /\ modules = <<>>
    /\ mi = 1
    /\ functions = <<>>
    /\ fi = 1
    /\ run = 1
    /\ firstIndex = <<>>
    /\ inserted = {}
    /\ fetched = {}
    /\ written = {}
    /\ Idle

\* main() up to the module loop: init_database, download_css, the download
\* of list_arrow.png and parse_main_page. A root page that is not found
\* makes document None, and document.find raises.
Start ==
    /\ pc = "start"
    /\ LET assets == save_page(save_page(files, "main.css", Content(CssUrl, <<>>, <<>>)),
                               "list_arrow.png", Content(ArrowUrl, <<>>, <<>>))
           document == do_request(site, RootUrl)
           anchors == RootAnchors(site)
       IN  /\ table' = init_database(table)
           /\ inserted' = {}
           /\ modules_in_404' = <<>>
           /\ fetched' = {RootUrl}
           /\ mi' = 1
           /\ functions' = <<>>
           /\ fi' = 1
           /\ IF document.ok
              THEN /\ files' = save_page(assets, "index.html",
                                         Content(RootUrl, RootBody(anchors), <<>>))
                   /\ written' = {<<"index.html", RootUrl>>}
                   /\ modules' = anchors
                   /\ pc' = "modules"
              ELSE /\ files' = assets
                   /\ written' = {}
                   /\ modules' = <<>>
                   /\ pc' = "aborted"
    /\ UNCHANGED <<site, run, firstIndex, frag, frag0, cur, lastInsert>>

\* One iteration of the module loop of main() up to its class loop:
\* parse_module_index_page and the not-found branch.
ParseModuleIndex ==
    /\ pc = "modules"
    /\ mi <= Len(modules)
    /\ LET module_slug == Slug(modules[mi].text)
           url == ModuleUrl(module_slug)
           document == do_request(site, url)
           file_path == module_slug \o "-index.html"
           body == clean_links(ModuleLinks, url, Cwd)
           toc == site.toc[module_slug]
       IN  /\ fetched' = fetched \cup {url}
           /\ IF ModuleNotFound(document)
              THEN /\ modules_in_404' = RecordNotFound(modules_in_404, module_slug)
                   /\ mi' = mi + 1
                   /\ UNCHANGED <<pc, files, written, table, inserted, functions, fi>>
              ELSE IF ~document.ok
              THEN /\ pc' = "aborted"
                   /\ UNCHANGED <<modules_in_404, mi, files, written, table, inserted,
                                  functions, fi>>
              ELSE /\ files' = save_page(files, file_path, Content(url, body, <<>>))
                   /\ written' = written \cup {<<file_path, url>>}
                   /\ table' = insert_entry(table, module_slug, "Module", file_path)
                   /\ inserted' = inserted \cup {<<module_slug, "Module", file_path>>}
                   /\ functions' = toc
                   /\ fi' = 1
                   /\ IF Len(toc) = 0
                      THEN mi' = mi + 1 /\ pc' = "modules"
                      ELSE mi' = mi /\ pc' = "classes"
                   /\ UNCHANGED modules_in_404
    /\ UNCHANGED <<site, modules, run, firstIndex, frag, frag0, cur, lastInsert>>

\* One iteration of the class loop of main(): parse_class_page. A class page
\* that is not found makes document None, and document.find raises.
ParseClassPage ==
    /\ pc = "classes"
    /\ fi <= Len(functions)
    /\ LET module == Slug(modules[mi].text)
           class_name == functions[fi]
           url == ClassUrl(module, class_name)
           document == do_request(site, url)
           body == clean_links(StripInherited(ClassLinks(class_name)), url, Cwd)
           images == DownloadImages(site, files, Images(class_name), <<>>)
           file_path == class_name \o ".html"
           synopsis == Synopsis(class_name)
           entry_name == ClassEntryName(module, class_name)
           t1 == insert_entry(table, entry_name, database_type(class_name), file_path)
       IN  /\ fetched' = fetched \cup {url}
           /\ IF document.ok
              THEN /\ files' = save_page(images.files, file_path,
                                         Content(url, body, images.imgs))
                   /\ written' = written \cup {<<file_path, url>>}
                   /\ table' = IF synopsis.has
                               THEN InsertMethods(t1, synopsis.methods, module, class_name,
                                                  file_path)
                               ELSE t1
                   /\ inserted' = inserted
                        \cup {<<entry_name, database_type(class_name), file_path>>}
                        \cup (IF synopsis.has
                              THEN MethodTriples(synopsis.methods, module, class_name,
                                                 file_path)
                              ELSE {})
                   /\ IF fi = Len(functions)
                      THEN mi' = mi + 1 /\ fi' = 1 /\ pc' = "modules"
                      ELSE mi' = mi /\ fi' = fi + 1 /\ pc' = "classes"
              ELSE /\ pc' = "aborted"
                   /\ UNCHANGED <<files, written, table, inserted, mi, fi>>
    /\ UNCHANGED <<site, modules, modules_in_404, functions, run, firstIndex,
                   frag, frag0, cur, lastInsert>>

\* The post-pass of main(): the saved root page is read back, the first link
\* matching each module of modules_in_404 is unwrapped, the page is saved
\* again, and the closing banner is printed.
PostPass ==
    /\ pc = "modules"
    /\ mi > Len(modules)
    /\ LET main_page == files["index.html"]
           pruned == Prune(main_page.nodes, modules_in_404)
       IN  IF pruned.ok
           THEN /\ files' = save_page(files, "index.html",
                                      Content(main_page.origin, pruned.body, <<>>))
                /\ written' = written \cup {<<"index.html", main_page.origin>>}
                /\ pc' = "done"
           ELSE /\ pc' = "aborted"
                /\ UNCHANGED <<files, written>>
    /\ UNCHANGED <<site, table, modules_in_404, modules, mi, functions, fi, run,
                   firstIndex, inserted, fetched, frag, frag0, cur, lastInsert>>

\* The tool is run a second time against the same site, over the output
\* directory and the index file the first run left.
Rerun ==
    /\ pc = "done"
    /\ run = 1
    /\ run' = 2
    /\ firstIndex' = table
    /\ pc' = "start"
    /\ UNCHANGED <<site, table, files, modules_in_404, modules, mi, functions, fi,
                   inserted, fetched, written, frag, frag0, cur, lastInsert>>

Next == Start \/ ParseModuleIndex \/ ParseClassPage \/ PostPass \/ Rerun

Spec == Init /\ [][Next]_vars

\* ------------------------------------------------- the index store on its own

NoSite == [links |-> <<>>, toc |-> [m \in ModuleSlugs |-> <<"QObject", "QEvent">>],
           down |-> {}]

\* the variables of the crawl, at rest
CrawlIdle ==
    /\ site = NoSite /\ files = NoFiles /\ modules_in_404 = <<>> /\ modules = <<>>
    /\ mi = 1 /\ functions = <<>> /\ fi = 1 /\ run = 1 /\ firstIndex = <<>>
    /\ fetched = {} /\ written = {}

StoreNames == {"QtCore", "PySide2.QtCore.QObject"}

StoreTypes == {"Module", "Class"}

StorePaths == {"QtCore-index.html", "QObject.html"}

InitStore ==
    /\ pc = "store-new"
    /\ table \in {<<>>, StaleTable}
    /\ inserted = {}
    /\ frag = <<>> /\ frag0 = <<>> /\ cur = [url |-> "", cwd |-> ""]
    /\ lastInsert = NoInsert
    /\ CrawlIdle

\* init_database()
StoreReset ==
    /\ pc = "store-new"
    /\ table' = init_database(table)
    /\ inserted' = {}
    /\ pc' = "store"
    /\ UNCHANGED <<site, files, modules_in_404, modules, mi, functions, fi, run,
                   firstIndex, fetched, written, frag, frag0, cur, lastInsert>>

\* insert_entry(name, entry_type, path)
StoreInsert ==
    /\ pc = "store"
    /\ lastInsert.n < MaxInserts
    /\ \E name \in StoreNames, entry_type \in StoreTypes, path \in StorePaths :
          /\ table' = insert_entry(table, name, entry_type, path)
          /\ inserted' = inserted \cup {<<name, entry_type, path>>}
          /\ lastInsert' = [n |-> lastInsert.n + 1,
                            triple |-> <<name, entry_type, path>>,
                            before |-> table]
    /\ UNCHANGED <<pc, site, files, modules_in_404, modules, mi, functions, fi, run,
                   firstIndex, fetched, written, frag, frag0, cur>>

NextStore == StoreReset \/ StoreInsert

SpecStore == InitStore /\ [][NextStore]_vars

\* ------------------------------------------------ the link rewriter on its own

\* the href attributes of the elements of a fragment
Hrefs ==
    { "../QtGui/QWindow.html#more",     \* another module's class page
      "../../overviews/object.html",    \* a page outside PySide2/
      "https://www.qt.io/",             \* another site
      "QEvent.html",                    \* a page of the same module
      "../QtGui/..",                    \* the PySide2/ directory itself
      "ab/x.html" }                     \* a subdirectory with a name of two letters

Nodes ==
    {Node(tag, TRUE, href, "text") : tag \in {"a", "area"}, href \in Hrefs}
        \cup {Node("a", FALSE, "", "text")}

Fragments == SeqsUpTo(Nodes, MaxTags) \ {<<>>}

\* the working directories the tool may be run in
Cwds == {Cwd, "/srv/PySide2"}

InitLinks ==
    /\ pc = "links"
    /\ frag \in Fragments
    /\ frag0 = frag
    /\ cur \in [url : {ModuleUrl("QtQuick"), ClassUrl("QtQuick", "QObject")}, cwd : Cwds]
    /\ table = <<>>
    /\ inserted = {}
    /\ lastInsert = NoInsert
    /\ CrawlIdle

\* clean_links(body, current_url)
CleanLinks ==
    /\ pc = "links"
    /\ frag' = clean_links(frag, cur.url, cur.cwd)
    /\ pc' = "cleaned"
    /\ UNCHANGED <<site, table, files, modules_in_404, modules, mi, functions, fi, run,
                   firstIndex, inserted, fetched, written, frag0, cur, lastInsert>>

NextLinks == CleanLinks

SpecLinks == InitLinks /\ [][NextLinks]_vars

\* ------------------------------------------------------------------ claims

\* the module links of the root page whose index page is not found
IndexNotFound(m) == ModuleUrl(m) \in site.down

\* the slugs of the first n module links, those not found only
RECURSIVE NotFoundAmong(_, _)
NotFoundAmong(anchors, n) ==
    IF n = 0 THEN <<>>
    ELSE LET rest == NotFoundAmong(anchors, n - 1)
             m == Slug(anchors[n].text)
         IN  IF IndexNotFound(m) THEN Append(rest, m) ELSE rest

\* C1: for a module whose index fetch returns not-found no index entry is
\* inserted and, once the run has reset the index, none is held (no Module
\* entry, no class entry and no Method entry named under it), none of
\* its pages is written, none of its class pages is fetched, and it is
\* recorded in modules_in_404: the list holds exactly the not-found modules
\* among those the loop has passed, so the loop went on after each of them.
C1_NotFoundModuleSkipped ==
    /\ \A m \in ModuleSlugs :
          IndexNotFound(m) =>
             /\ \A t \in inserted :
                   /\ t[1] # m
                   /\ ~StartsWith(t[1], "PySide2." \o m \o ".")
             /\ (pc # "start" \/ run = 2) =>
                   \A i \in DOMAIN table :
                       /\ table[i].name # m
                       /\ ~StartsWith(table[i].name, "PySide2." \o m \o ".")
             /\ \A w \in written :
                   /\ w[1] # m \o "-index.html"
                   /\ w[2] # ModuleUrl(m)
                   /\ \A c \in ClassNames : w[2] # ClassUrl(m, c)
             /\ \A c \in ClassNames : ClassUrl(m, c) \notin fetched
    /\ pc \in {"modules", "classes", "done"} =>
          modules_in_404 =
              NotFoundAmong(modules, IF pc = "classes" THEN mi ELSE mi - 1)

\* C1 witness: a completed run whose first module was not found and whose
\* second module was indexed.
C1_Witness ==
    /\ pc = "done"
    /\ Len(modules) >= 2
    /\ IndexNotFound(Slug(modules[1].text))
    /\ ~IndexNotFound(Slug(modules[2].text))
    /\ Len(modules_in_404) = 1
    /\ Len(table) >= 2

\* C2: after the post-pass of a completed run the saved root page holds no
\* link of a not-found module and holds, unchanged, the link of every module
\* whose index was fetched.
C2_RootLinksPruned ==
    pc = "done" =>
        LET body == files["index.html"].nodes
        IN  \A i \in DOMAIN modules :
                IF IndexNotFound(Slug(modules[i].text))
                THEN body[i].tag # "a"
                ELSE body[i] = RootBody(modules)[i]

\* C3: after init_database and any sequence of insert_entry calls no two rows
\* hold the same (name, type, path); the rows' triples are the distinct
\* triples inserted since the reset; an insert of a present triple leaves the
\* table unchanged and an insert of an absent one adds exactly one row.
C3_UniqueTriples ==
    pc = "store" =>
        /\ \A i, j \in DOMAIN table : Triple(table[i]) = Triple(table[j]) => i = j
        /\ Triples(table) = inserted
        /\ lastInsert.n > 0 =>
              IF lastInsert.triple \in Triples(lastInsert.before)
              THEN table = lastInsert.before
              ELSE /\ Len(table) = Len(lastInsert.before) + 1
                   /\ SubSeq(table, 1, Len(lastInsert.before)) = lastInsert.before
                   /\ Triple(Last(table)) = lastInsert.triple

\* C3 witness: a triple that was already in the table has been inserted again.
C3_Witness ==
    /\ pc = "store"
    /\ lastInsert.n >= 2
    /\ lastInsert.triple \in Triples(lastInsert.before)
    /\ Len(table) >= 1

\* C4: at the end of a completed run the index holds exactly the distinct
\* triples that run inserted, whatever the index held before it; and the
\* second of two runs against the same site ends with the same rows and the
\* same row count as the first.
C4_IndexResetEachRun ==
    pc = "done" =>
        /\ Triples(table) = inserted
        /\ Len(table) = Cardinality(inserted)
        /\ run = 2 =>
              /\ Triples(table) = Triples(firstIndex)
              /\ Len(table) = Len(firstIndex)

\* C4 witness: a second run has completed with a filled index.
C4_Witness == pc = "done" /\ run = 2 /\ Len(table) >= 3 /\ Len(firstIndex) >= 3

\* The target of a reference, resolved against the URL of the page that holds
\* it (RFC 3986): a reference with a scheme is its own target; otherwise the
\* reference replaces the last segment of the base path, "." and ".." are
\* resolved without leaving the root, and a final "." or ".." leaves a
\* trailing "/".
RECURSIVE RemoveDots(_, _)
RemoveDots(comps, acc) ==
    IF Len(comps) = 0 THEN acc
    ELSE LET c == Head(comps)
             final == Len(comps) = 1
             popped == IF Len(acc) = 0 THEN acc ELSE SubSeq(acc, 1, Len(acc) - 1)
         IN  IF c = "."
             THEN RemoveDots(Tail(comps), IF final THEN Append(acc, "") ELSE acc)
             ELSE IF c = ".."
             THEN RemoveDots(Tail(comps), IF final THEN Append(popped, "") ELSE popped)
             ELSE RemoveDots(Tail(comps), Append(acc, c))

ResolvedTarget(base, href) ==
    IF Contains(href, "://") THEN href
    ELSE LET b == Split(base, "/")
             authority == SubSeq(b, 1, 3)
             directory == SubSeq(b, 4, Len(b) - 1)
         IN  Join(authority \o RemoveDots(directory \o Split(href, "/"), <<>>), "/")

\* the target lies inside the documentation path space
InsideDocs(base, href) == Contains(ResolvedTarget(base, href), "PySide2")

\* the elements clean_links is about: a and area elements with an href
IsLink(n) == n.tag \in {"a", "area"} /\ n.hasHref

C6_OutsideLinksUnwrapped ==
    pc = "cleaned" =>
        \A i \in DOMAIN frag0 :
            (frag0[i].tag = "a" /\ frag0[i].hasHref) =>
                IF InsideDocs(cur.url, frag0[i].href)
                THEN frag[i].tag = "a"
                ELSE frag[i] = Node("#text", FALSE, "", frag0[i].text)

\* the class pages processed in this run: parse_class_page saved the page
ClassPageDone(m, c) == <<c \o ".html", ClassUrl(m, c)>> \in written

\* the rows registered for class c of module m that are not Method rows
ClassRows(m, c) ==
    {i \in DOMAIN table : /\ table[i].name = "PySide2." \o m \o "." \o c
                          /\ table[i].type # "Method"}

\* the Method rows registered for class c of module m
MethodRows(m, c) ==
    {i \in DOMAIN table : /\ table[i].type = "Method"
                          /\ StartsWith(table[i].name, "PySide2." \o m \o "." \o c \o ".")}

\* C7: for every class page processed exactly one non-Method entry is
\* registered, named PySide2.<module>.<class> with path <class>.html, and its
\* type is Event, Interface or Enum when the class name ends in that word and
\* Class otherwise; every non-Module, non-Method row has one of these types.
C7_TypeBySuffix ==
    /\ \A i \in DOMAIN table :
          table[i].type \in {"Module", "Method", "Class", "Event", "Interface", "Enum"}
    /\ \A m \in ModuleSlugs, c \in ClassNames :
          ClassPageDone(m, c) =>
             /\ Cardinality(ClassRows(m, c)) = 1
             /\ \A i \in ClassRows(m, c) :
                   /\ table[i].path = c \o ".html"
                   /\ EndsWith(c, "Event") => table[i].type = "Event"
                   /\ EndsWith(c, "Interface") => table[i].type = "Interface"
                   /\ EndsWith(c, "Enum") => table[i].type = "Enum"
                   /\ (~EndsWith(c, "Event") /\ ~EndsWith(c, "Interface")
                          /\ ~EndsWith(c, "Enum")) => table[i].type = "Class"

\* C7 witness: a completed run has registered an entry of each of the four types.
C7_Witness ==
    /\ pc = "done"
    /\ \A ty \in {"Class", "Event", "Interface", "Enum"} :
          \E i \in DOMAIN table : table[i].type = ty

\* the site answers the root fetch and every class-page fetch
PagesReachable ==
    /\ RootUrl \notin site.down
    /\ \A m \in ModuleSlugs, c \in ClassNames : ClassUrl(m, c) \notin site.down

\* C8: when the root fetch and every class-page fetch succeed, then whichever
\* module indexes are not found and whichever image downloads fail, the run
\* never aborts, in the module loop or in the post-pass, and it is never
\* stuck before the closing banner: in every state short of it the guard of
\* the next step holds (the module loop has a module to fetch or the saved
\* root page to patch, the class loop has a class to fetch). Each step
\* advances the run, so the banner is reached.
C8_NotFoundIsNotFatal ==
    PagesReachable =>
        /\ pc \in {"start", "modules", "classes", "done"}
        /\ pc = "modules" => /\ mi <= Len(modules) + 1
                             /\ "index.html" \in DOMAIN files
        /\ pc = "classes" => /\ mi <= Len(modules)
                             /\ fi <= Len(functions)
        /\ pc = "done" => /\ mi = Len(modules) + 1
                          /\ <<"index.html", RootUrl>> \in written

\* C8 witness: a run with a module not found and a failed image download has
\* reached the closing banner.
C8_Witness ==
    /\ pc = "done"
    /\ PagesReachable
    /\ Len(modules_in_404) >= 1
    /\ ImageUrl("../../_images/qobject.png") \in site.down
    /\ "QObject.html" \in DOMAIN files
    /\ files["QObject.html"].imgs = <<>>

\* the triples the synopsis of class c of module m calls for: one per listed
\* method, named PySide2.<module>.<class>.<method>, its path the class page's
\* file name followed by the method's anchor
ListedMethods(m, c) ==
    LET listed == Synopsis(c).methods
    IN  { << "PySide2." \o m \o "." \o c \o "." \o listed[k].string, "Method",
             c \o ".html" \o listed[k].href >> : k \in DOMAIN listed }

\* C9 as stated: after a class page is processed the number of Method rows
\* for it equals the number of methods its synopsis lists.
C9_OneRowPerListedMethod ==
    \A m \in ModuleSlugs, c \in ClassNames :
        ClassPageDone(m, c) =>
            Cardinality(MethodRows(m, c)) = Len(Synopsis(c).methods)

\* C9 as amended: after a class page is processed its Method rows are exactly
\* the distinct (name, path) pairs its synopsis lists, each path the class
\* page's file name followed by a fragment beginning with "#": methods listed
\* more than once under one name and anchor share one row. A class page
\* without a synopsis, and a class page not processed, has no Method row.
C9_OneRowPerDistinctMethod ==
    \A m \in ModuleSlugs, c \in ClassNames :
        IF ClassPageDone(m, c)
        THEN /\ {Triple(table[i]) : i \in MethodRows(m, c)} =
                    (IF Synopsis(c).has THEN ListedMethods(m, c) ELSE {})
             /\ Cardinality(MethodRows(m, c)) =
                    (IF Synopsis(c).has THEN Cardinality(ListedMethods(m, c)) ELSE 0)
             /\ \A i \in MethodRows(m, c) : StartsWith(table[i].path, c \o ".html#")
        ELSE pc # "start" => MethodRows(m, c) = {}

\* C9 witness: a class page whose synopsis lists an overloaded method twice
\* has been processed, as has one without a synopsis.
C9_Witness ==
    /\ pc = "done"
    /\ \E m \in ModuleSlugs :
          /\ ClassPageDone(m, "QObject")
          /\ Cardinality(MethodRows(m, "QObject")) = 2
          /\ ClassPageDone(m, "QMetaEnum")

\* the page an entry was registered for
EntryOrigin(r) ==
    IF r.type = "Module" THEN ModuleUrl(r.name)
    ELSE LET parts == Split(r.name, ".") IN ClassUrl(parts[2], parts[3])

\* C10: once the run has reset the index, every Module entry and every class
\* entry names a file that exists and holds the page rendered from the
\* entry's own module index page or class page.
C10_EntryResolvesToOwnPage ==
    pc \in {"modules", "classes", "done"} =>
        \A i \in DOMAIN table :
            table[i].type # "Method" =>
                /\ table[i].path \in DOMAIN files
                /\ files[table[i].path].origin = EntryOrigin(table[i])

====
